---- MODULE Spec2Model ----
(***************************************************************************)
(* A model of installer.go: the two archive extractors (extractZIP,        *)
(* extractTGZ) over a POSIX-like filesystem with symbolic links, and the   *)
(* provisioning run of main (download, extract, configure, launch, open).  *)
(*                                                                         *)
(* Paths.  A path string is modelled by the sequence of its components,    *)
(* i.e. by strings.Split(path, "/"): "d/f" is <<"d","f">>, "d/" is         *)
(* <<"d","">>, "/home/LogViewer" is <<"","home","LogViewer">>.  A cleaned  *)
(* absolute path is the sequence of its components below the root:         *)
(* "/home/LogViewer" cleaned is <<"home","LogViewer">> and "/" is <<>>.    *)
(* Every destination directory is absolute, as the one main builds from    *)
(* the home directory.                                                     *)
(***************************************************************************)
EXTENDS Integers, Sequences, FiniteSets, TLC

\* Longest archive (number of entries) the extraction inputs are drawn from.
MaxEntries == 3
\* Symbolic links followed in one path resolution before ELOOP.
MaxLinkHops == 3

\* os.ModePerm (0777), the permission extractZIP asks for directories.
ModePerm == 511
\* 0755, the permission asked for the destination directory.
DestPerm == 493

VARIABLES
    goos,       \* runtime.GOOS of the run ("none" outside a run of main)
    mpc,        \* position of main; "harness" when an extractor is called directly
    staged,     \* staging directory: file name -> the archive bytes last written there
    env,        \* environment variables this process has set
    procs,      \* child processes started (and left running)
    trace,      \* stages main has entered, in order
    failed,     \* stages of main that ended with an error
    logged,     \* stages whose error main printed
    format,     \* "zip" | "tgz": the extractor being run
    archive,    \* the archive being extracted: a sequence of entries
    idx,        \* index of the next entry of the loop
    fs,         \* the filesystem: cleaned absolute path -> node
    xpc,        \* "idle" | "loop" | "done": position of the extractor
    xerr,       \* what the last extractor call returned ("nil" for success)
    handles,    \* handles the running call holds open
    faulted,    \* an I/O fault of the environment has been injected
    prev        \* what the previous extractor call returned, and the filesystem
                \* it left, which is the one the current call started on

mvars == <<goos, mpc, staged, env, procs, trace, failed, logged>>
xvars == <<format, archive, idx, fs, xpc, xerr, handles, faulted, prev>>
vars == <<goos, mpc, staged, env, procs, trace, failed, logged,
          format, archive, idx, fs, xpc, xerr, handles, faulted, prev>>

----------------------------------------------------------------------------
(* Paths: path/filepath *)

Parent(p) == IF p = <<>> THEN <<>> ELSE SubSeq(p, 1, Len(p) - 1)

RECURSIVE CleanFrom(_, _)
CleanFrom(acc, rest) ==
    IF rest = <<>> THEN acc
    ELSE LET c == Head(rest) IN
         IF c = "" \/ c = "." THEN CleanFrom(acc, Tail(rest))
         ELSE IF c = ".." THEN CleanFrom(Parent(acc), Tail(rest))
         ELSE CleanFrom(Append(acc, c), Tail(rest))

\* filepath.Clean of an absolute path: empty and "." components dropped, ".."
\* resolved lexically, ".." at the root dropped.
Clean(p) == CleanFrom(<<>>, p)

\* filepath.Join(dir, name) with dir absolute: the two joined by a separator, cleaned.
Join(dir, name) == Clean(dir \o name)

\* filepath.Dir of a cleaned absolute path.
Dir(p) == Parent(p)

\* strings.HasPrefix(a, b) on two file names of the model.
NamePrefix(a, b) == a = b \/ (a = "LogViewer2" /\ b = "LogViewer")

\* The containment test without the separator, strings.HasPrefix(p, d): d
\* itself passes, and so does a sibling whose name starts with d's name.
HasDirPrefixNoSep(p, d) ==
    /\ d # <<>>
    /\ Len(p) >= Len(d)
    /\ SubSeq(p, 1, Len(d) - 1) = Parent(d)
    /\ NamePrefix(p[Len(d)], d[Len(d)])

\* A containment test that lets the directory itself through, as
\* strings.HasPrefix(p + "/", d + "/") would.
HasDirPrefixOrSelf(p, d) ==
    d # <<>> /\ Len(p) >= Len(d) /\ SubSeq(p, 1, Len(d)) = d

\* strings.HasPrefix(p, d + "/") for cleaned absolute paths p and d: the
\* components of d followed by at least one more.  Clean("/") + "/" is "//",
\* a prefix of no cleaned path.
HasDirPrefix(p, d) ==
    /\ d # <<>>
    /\ Len(p) > Len(d)
    /\ SubSeq(p, 1, Len(d)) = d

\* The skip test with the prefix misspelt.
HasJunkPrefixMisspelt(name) == Len(name) >= 2 /\ name[1] = "__MACOSX_"

\* strings.HasPrefix(name, "__MACOSX/") on an entry name.
HasJunkPrefix(name) == Len(name) >= 2 /\ name[1] = "__MACOSX"

----------------------------------------------------------------------------
(* The filesystem the os package acts on *)

DirNode(mode)      == [kind |-> "dir",  data |-> <<>>, mode |-> mode, target |-> <<>>]
FileNode(d, mode)  == [kind |-> "file", data |-> d,  mode |-> mode, target |-> <<>>]
LinkNode(t)        == [kind |-> "link", data |-> <<>>, mode |-> ModePerm, target |-> t]

Put(f, p, n) == [q \in (DOMAIN f) \cup {p} |-> IF q = p THEN n ELSE f[q]]

\* The permission bits a created node gets under the process umask (022).
ApplyUmask(m) == m - 16 * ((m \div 16) % 2) - 2 * ((m \div 2) % 2)

\* Path resolution by the kernel: walks `rest` from the directory `cur`,
\* following symbolic links (the last component's only when `follow`).
\* st: "ok" (path is the node reached), "absent" (every parent exists, the
\* last component does not; path is where it would be), or an errno.
RECURSIVE Walk(_, _, _, _, _)
Walk(f, cur, rest, follow, hops) ==
    IF rest = <<>> THEN [st |-> "ok", path |-> cur]
    ELSE LET c  == Head(rest)
             tl == Tail(rest)
         IN  IF c = "" \/ c = "." THEN Walk(f, cur, tl, follow, hops)
             ELSE IF c = ".." THEN Walk(f, Parent(cur), tl, follow, hops)
             ELSE LET q == Append(cur, c) IN
                  IF q \notin DOMAIN f
                  THEN [st |-> IF tl = <<>> THEN "absent" ELSE "ENOENT", path |-> q]
                  ELSE IF f[q].kind = "link"
                  THEN IF tl = <<>> /\ ~follow THEN [st |-> "ok", path |-> q]
                       ELSE IF hops = 0 THEN [st |-> "ELOOP", path |-> q]
                       ELSE LET t == f[q].target IN
                            Walk(f, IF t # <<>> /\ Head(t) = "" THEN <<>> ELSE cur,
                                 t \o tl, follow, hops - 1)
                  ELSE IF f[q].kind = "dir" THEN Walk(f, q, tl, follow, hops)
                  ELSE IF tl = <<>> THEN [st |-> "ok", path |-> q]
                  ELSE [st |-> "ENOTDIR", path |-> q]

Stat(f, p)  == Walk(f, <<>>, p, TRUE, MaxLinkHops)
Lstat(f, p) == Walk(f, <<>>, p, FALSE, MaxLinkHops)

\* os.Mkdir(p, perm)
Mkdir(f, p, perm) ==
    LET w == Lstat(f, p) IN
    IF w.st = "absent" THEN [fs |-> Put(f, w.path, DirNode(ApplyUmask(perm))), err |-> "nil"]
    ELSE IF w.st = "ok" THEN [fs |-> f, err |-> "EEXIST"]
    ELSE [fs |-> f, err |-> w.st]

\* os.MkdirAll(p, perm): nil when p is a directory already, else the parents
\* first and then Mkdir(p).
RECURSIVE MkdirAll(_, _, _)
MkdirAll(f, p, perm) ==
    LET s == Stat(f, p) IN
    IF s.st = "ok"
    THEN [fs |-> f, err |-> IF f[s.path].kind = "dir" THEN "nil" ELSE "ENOTDIR"]
    ELSE LET up == IF Len(p) > 0 THEN MkdirAll(f, Parent(p), perm)
                   ELSE [fs |-> f, err |-> "nil"]
         IN  IF up.err # "nil" THEN up
             ELSE LET m == Mkdir(up.fs, p, perm) IN
                  IF m.err = "nil" THEN m
                  ELSE LET l == Lstat(up.fs, p) IN
                       IF l.st = "ok" /\ up.fs[l.path].kind = "dir"
                       THEN [fs |-> up.fs, err |-> "nil"]
                       ELSE m

\* os.OpenFile(p, O_WRONLY|O_CREATE|O_TRUNC, perm): an existing file is
\* truncated and keeps its mode, a missing one is created in its (existing)
\* parent; the last component is followed when it is a symbolic link.
OpenFileTrunc(f, p, perm) ==
    LET s == Stat(f, p) IN
    IF s.st = "ok"
    THEN IF f[s.path].kind = "dir" THEN [fs |-> f, err |-> "EISDIR", at |-> s.path]
         ELSE [fs |-> Put(f, s.path, FileNode(<<>>, f[s.path].mode)), err |-> "nil", at |-> s.path]
    ELSE IF s.st = "absent"
    THEN [fs |-> Put(f, s.path, FileNode(<<>>, ApplyUmask(perm))), err |-> "nil", at |-> s.path]
    ELSE [fs |-> f, err |-> s.st, at |-> s.path]

\* The first n chunks of content d: what io.Copy has written when it stops
\* after n chunks, every chunk read being written before the next is read.
Prefix(d, n) == SubSeq(d, 1, n)

\* io.Copy into the file opened at `at`: the bytes d it wrote.
CopyTo(f, at, d) == Put(f, at, FileNode(d, f[at].mode))

\* os.Symlink with its two arguments exchanged.
SymlinkSwapped(f, oldname, newname) ==
    LET w == Walk(f, <<>>, oldname, FALSE, MaxLinkHops) IN
    IF w.st = "absent" THEN [fs |-> Put(f, w.path, LinkNode(newname)), err |-> "nil"]
    ELSE IF w.st = "ok" THEN [fs |-> f, err |-> "EEXIST"]
    ELSE [fs |-> f, err |-> w.st]

\* os.Symlink(oldname, newname): fails when newname exists.
Symlink(f, oldname, newname) ==
    LET w == Lstat(f, newname) IN
    IF w.st = "absent" THEN [fs |-> Put(f, w.path, LinkNode(oldname)), err |-> "nil"]
    ELSE IF w.st = "ok" THEN [fs |-> f, err |-> "EEXIST"]
    ELSE [fs |-> f, err |-> w.st]

----------------------------------------------------------------------------
(* Inputs *)

\* The destination directory, as the string the extractors are given.
DestDir == <<"", "home", "LogViewer">>
Dest == Clean(DestDir)

\* The filesystem before anything ran: the root and the home directory.
FS0 == (<<>> :> DirNode(DestPerm)) @@ (<<"home">> :> DirNode(DestPerm))

Entry(n, k, d, l, m) == [name |-> n, kind |-> k, data |-> d, link |-> l, mode |-> m]

EDir   == Entry(<<"d", "">>, "dir", <<>>, <<>>, 493)
EFile  == Entry(<<"d", "f">>, "reg", <<"he", "llo">>, <<>>, 420)
ETop   == Entry(<<"t">>, "reg", <<"tg", "t">>, <<>>, 420)
ELink  == Entry(<<"link">>, "sym", <<"t">>, <<"t">>, 511)
EEvil  == Entry(<<"..", "..", "evil">>, "reg", <<"x">>, <<>>, 420)
EJunk  == Entry(<<"__MACOSX", "x">>, "reg", <<"rsrc">>, <<>>, 420)
EEsc   == Entry(<<"esc">>, "sym", <<"..">>, <<"..">>, 511)
EThru  == Entry(<<"esc", "evil">>, "reg", <<"y">>, <<>>, 420)
ESib   == Entry(<<"..", "LogViewer2", "x">>, "reg", <<"z">>, <<>>, 420)
ESelf  == Entry(<<".", "">>, "dir", <<>>, <<>>, 493)
EUp    == Entry(<<"d", "..">>, "dir", <<>>, <<>>, 493)
EOther == Entry(<<"dev">>, "other", <<>>, <<>>, 420)

Entries == {EDir, EFile, ETop, ELink, EEvil, EJunk, EEsc, EThru, ESib, ESelf, EUp, EOther}

Archives == UNION {[1..n -> Entries] : n \in 1..MaxEntries}

Formats == {"zip", "tgz"}

----------------------------------------------------------------------------
(* The extractors *)

\* Where the environment can make a call fail whatever the filesystem holds
\* (permissions, a full disk, a damaged archive).
Faults == {"none", "mkdir", "create", "open", "copy", "next"}

\* How many chunks of entry e's content io.Copy may have written when the
\* call hit by fault flt returns: any number when it is the copy that fails.
Parts(e, flt) == IF flt = "copy" THEN 0..Len(e.data) ELSE {0}

\* What handling one entry gives: the filesystem, the error that ends the
\* call ("nil": the loop goes on), the handles still open if the call ends
\* here, and whether the injected fault hit a call that was made.
Outcome(f, e, leak, used) == [fs |-> f, err |-> e, leak |-> leak, used |-> used]

\* One iteration of extractZIP's loop on entry e; a failing io.Copy has
\* written n chunks.
ZipEntry(f, e, flt, n) ==
    IF HasJunkPrefix(e.name) THEN Outcome(f, "nil", {}, FALSE)
    ELSE LET fpath == Join(DestDir, e.name) IN
    IF ~HasDirPrefix(fpath, Clean(DestDir)) THEN Outcome(f, "illegal file path", {}, FALSE)
    ELSE IF e.kind = "dir"
    THEN \* the result of os.MkdirAll is dropped
         IF flt = "mkdir" THEN Outcome(f, "nil", {}, TRUE)
         ELSE Outcome(MkdirAll(f, fpath, ModePerm).fs, "nil", {}, FALSE)
    ELSE IF flt = "mkdir" THEN Outcome(f, "EIO", {}, TRUE)
    ELSE LET up == MkdirAll(f, Dir(fpath), ModePerm) IN
    IF up.err # "nil" THEN Outcome(up.fs, up.err, {}, FALSE)
    ELSE IF flt = "create" THEN Outcome(up.fs, "EIO", {}, TRUE)
    ELSE LET o == OpenFileTrunc(up.fs, fpath, e.mode) IN
    IF o.err # "nil" THEN Outcome(o.fs, o.err, {}, FALSE)
    ELSE IF flt = "open" THEN Outcome(o.fs, "zip: open", {"outFile"}, TRUE)
    ELSE IF flt = "copy"
    THEN Outcome(CopyTo(o.fs, o.at, Prefix(e.data, n)), "copy", {}, TRUE)
    ELSE Outcome(CopyTo(o.fs, o.at, e.data), "nil", {}, FALSE)

\* An entry of a type the switch has no case for, refused with an error.
TgzUnknownRefused(f, e) == Outcome(f, "tar: unsupported entry type", {}, FALSE)

\* extractTGZ on an entry whose type is none of TypeDir, TypeReg,
\* TypeSymlink: the switch has no case for it and the loop goes on.
TgzUnknown(f, e) == Outcome(f, "nil", {}, FALSE)

\* One iteration of extractTGZ's loop on the entry tr.Next() returns; a
\* failing io.Copy has written n chunks.
TgzEntry(f, e, flt, n) ==
    IF flt = "next" THEN Outcome(f, "tar: invalid header", {}, TRUE)
    ELSE LET target == Join(DestDir, e.name) IN
    IF e.kind = "dir"
    THEN IF flt = "mkdir" THEN Outcome(f, "EIO", {}, TRUE)
         ELSE LET m == MkdirAll(f, target, e.mode) IN Outcome(m.fs, m.err, {}, FALSE)
    ELSE IF e.kind = "reg"
    THEN IF flt = "create" THEN Outcome(f, "EIO", {}, TRUE)
         ELSE LET o == OpenFileTrunc(f, target, e.mode) IN
              IF o.err # "nil" THEN Outcome(o.fs, o.err, {}, FALSE)
              ELSE IF flt = "copy"
              THEN Outcome(CopyTo(o.fs, o.at, Prefix(e.data, n)), "copy", {}, TRUE)
              ELSE Outcome(CopyTo(o.fs, o.at, e.data), "nil", {}, FALSE)
    ELSE IF e.kind = "sym"
    THEN IF flt = "create" THEN Outcome(f, "EIO", {}, TRUE)
         ELSE LET m == Symlink(f, e.link, target) IN Outcome(m.fs, m.err, {}, FALSE)
    ELSE TgzUnknown(f, e)

\* The start of extractZIP / extractTGZ on archive a: the destination is
\* created and the archive opened.
XBegin(a, fm, flt) ==
    LET m   == IF flt = "mkdir" THEN [fs |-> fs, err |-> "EIO"]
               ELSE MkdirAll(fs, DestDir, DestPerm)
        bad == m.err # "nil" \/ flt = "open"
    IN  /\ flt \in {"none", "mkdir", "open"}
        /\ format' = fm
        /\ archive' = a
        /\ idx' = 1
        /\ fs' = m.fs
        /\ prev' = [err |-> xerr, fs |-> fs]
        /\ xpc' = IF bad THEN "done" ELSE "loop"
        /\ xerr' = IF m.err # "nil" THEN "failed to create directory"
                   ELSE IF flt = "open" THEN "open archive" ELSE "running"
        /\ handles' = IF bad THEN {}
                      ELSE IF fm = "zip" THEN {"zipReader"} ELSE {"file", "gzr"}
        /\ faulted' = (faulted \/ flt # "none")

\* One loop iteration that cleans up when it fails: the filesystem is put
\* back as it was when the call began.
XApplyRollback(r, flt) ==
    /\ flt = "none" \/ r.used
    /\ fs' = IF r.err = "nil" THEN r.fs ELSE prev.fs
    /\ faulted' = (faulted \/ flt # "none")
    /\ IF r.err = "nil"
       THEN /\ idx' = idx + 1
            /\ UNCHANGED <<xpc, xerr, handles>>
       ELSE /\ xpc' = "done"
            /\ xerr' = r.err
            /\ handles' = r.leak
            /\ UNCHANGED idx
    /\ UNCHANGED <<format, archive, prev>>

\* The effect of one loop iteration with outcome r.
XApply(r, flt) ==
    /\ flt = "none" \/ r.used
    /\ fs' = r.fs
    /\ faulted' = (faulted \/ flt # "none")
    /\ IF r.err = "nil"
       THEN /\ idx' = idx + 1
            /\ UNCHANGED <<xpc, xerr, handles>>
       ELSE /\ xpc' = "done"
            /\ xerr' = r.err
            /\ handles' = r.leak
            /\ UNCHANGED idx
    /\ UNCHANGED <<format, archive, prev>>

ZipStep ==
    /\ xpc = "loop" /\ format = "zip" /\ idx <= Len(archive)
    /\ \E flt \in Faults : \E n \in Parts(archive[idx], flt) :
           XApply(ZipEntry(fs, archive[idx], flt, n), flt)
    /\ UNCHANGED mvars

TgzStep ==
    /\ xpc = "loop" /\ format = "tgz" /\ idx <= Len(archive)
    /\ \E flt \in Faults : \E n \in Parts(archive[idx], flt) :
           XApply(TgzEntry(fs, archive[idx], flt, n), flt)
    /\ UNCHANGED mvars

\* The loop is over (the last zip entry, io.EOF from tr.Next): return nil,
\* the deferred closes run.
XEnd ==
    /\ xpc = "loop" /\ idx > Len(archive)
    /\ xpc' = "done"
    /\ xerr' = "nil"
    /\ handles' = {}
    /\ UNCHANGED <<format, archive, idx, fs, faulted, prev>>
    /\ UNCHANGED mvars

\* An extractor called directly on an archive, and again on the same archive
\* once a call has returned nil.
HarnessCall ==
    /\ mpc = "harness"
    /\ xpc = "idle" \/ (xpc = "done" /\ xerr = "nil" /\ ~faulted)
    /\ \E flt \in Faults : XBegin(archive, format, flt)
    /\ UNCHANGED mvars

InitExtract ==
    /\ goos = "none" /\ mpc = "harness"
    /\ staged = << >> /\ env = {} /\ procs = {} /\ trace = << >>
    /\ failed = {} /\ logged = {}
    /\ format \in Formats
    /\ archive \in Archives
    /\ idx = 1
    /\ fs = FS0
    /\ xpc = "idle" /\ xerr = "none"
    /\ handles = {}
    /\ faulted = FALSE
    /\ prev = [err |-> "none", fs |-> FS0]

NextExtract == HarnessCall \/ ZipStep \/ TgzStep \/ XEnd

SpecExtract == InitExtract /\ [][NextExtract]_vars

----------------------------------------------------------------------------
(* main: one provisioning run *)

Supported == {"darwin", "linux", "windows"}
Platforms == Supported \cup {"freebsd"}

\* The extractor main uses for Elasticsearch and Kibana (and, off Windows, Java).
FormatOf(os) == IF os = "windows" THEN "zip" ELSE "tgz"

\* javaP, elasticP, kibanaP: the file each download is written to and each
\* extraction reads, under the executable's directory.
StagingPath(os, c) ==
    IF os = "darwin" THEN
        (IF c = "java" THEN "jdk-17_macos-x64_bin.tar.gz"
         ELSE IF c = "es" THEN "elasticsearch-7.17.20-darwin-x86_64.tar.gz"
         ELSE "kibana-7.17.20-darwin-x86_64.tar.gz")
    ELSE IF os = "linux" THEN
        (IF c = "java" THEN "jdk-17_linux-x64_bin.tar.gz"
         ELSE IF c = "es" THEN "elasticsearch-7.17.20-linux-x86_64.tar.gz"
         ELSE "kibana-7.17.20-linux-x86_64.tar.gz")
    ELSE
        (IF c = "java" THEN "jdk-17_windows-x64_bin.zip"
         ELSE IF c = "es" THEN "elasticsearch-7.17.20-windows-x86_64.zip"
         ELSE "kibana-7.17.20-windows-x86_64.zip")

\* msiFilePath: the file the Windows Java installer is started on.
MsiPath == "jdk-17_windows-x64_bin.msi"

\* The file the extraction or installation step of component c reads.
ReadPath(os, c) ==
    IF os = "windows" /\ c = "java" THEN MsiPath ELSE StagingPath(os, c)

\* What a server may send for a component.
Served == {<<EDir, EFile>>, <<EFile>>, <<EEvil>>}

\* A download's handler with the return forgotten.
AfterDownloadNoReturn(c, err) ==
    IF c = "java" THEN "dl_es" ELSE IF c = "es" THEN "dl_kibana" ELSE "x_java"

\* Where main goes after downloadFile returned err for component c.
AfterDownload(c, err) ==
    IF err # "nil" THEN "exit"
    ELSE IF c = "java" THEN "dl_es" ELSE IF c = "es" THEN "dl_kibana" ELSE "x_java"

\* The extractions with Kibana's and Elasticsearch's exchanged.
AfterExtractSwapped(c, err) ==
    IF c = "java" THEN "x_kibana"
    ELSE IF err # "nil" THEN "exit"
    ELSE IF c = "kibana" THEN "x_es" ELSE "setenv"

\* Where main goes after the extraction of component c returned err: the
\* Java branch prints the error and goes on.
AfterExtract(c, err) ==
    IF c = "java" THEN "x_es"
    ELSE IF err # "nil" THEN "exit"
    ELSE IF c = "es" THEN "x_kibana" ELSE "setenv"

\* A main that calls startProcessE again when it returned an error.
AfterStartRetry(err) == IF err # "nil" THEN "start_es" ELSE "wait_kibana"

\* Where main goes after startProcessE returned err.
AfterStart(err) == IF err # "nil" THEN "exit" ELSE "wait_kibana"

\* The stage is entered; when it fails, that is recorded, and whether main
\* printed the error.
Stage(name, ok, printed) ==
    /\ trace' = Append(trace, name)
    /\ failed' = IF ok THEN failed ELSE failed \cup {name}
    /\ logged' = IF ok \/ ~printed THEN logged ELSE logged \cup {name}

\* os.UserHomeDir
MainHome ==
    /\ mpc = "home"
    /\ \E ok \in BOOLEAN :
        /\ Stage("home", ok, TRUE)
        /\ mpc' = IF ok THEN "mkdir" ELSE "exit"
    /\ UNCHANGED <<goos, staged, env, procs>>
    /\ UNCHANGED xvars

\* os.MkdirAll(logViewerDir, 0755)
MainMkdir ==
    /\ mpc = "mkdir"
    /\ \E flt \in {"none", "mkdir"} :
        LET m == IF flt = "mkdir" THEN [fs |-> fs, err |-> "EIO"]
                 ELSE MkdirAll(fs, DestDir, DestPerm)
        IN  /\ fs' = m.fs
            /\ Stage("mkdir", m.err = "nil", TRUE)
            /\ mpc' = IF m.err = "nil" THEN "exe" ELSE "exit"
            /\ faulted' = (faulted \/ flt # "none")
    /\ UNCHANGED <<goos, staged, env, procs>>
    /\ UNCHANGED <<format, archive, idx, xpc, xerr, handles, prev>>

\* os.Executable
MainExe ==
    /\ mpc = "exe"
    /\ \E ok \in BOOLEAN :
        /\ Stage("exe", ok, TRUE)
        /\ mpc' = IF ok THEN "platform" ELSE "exit"
    /\ UNCHANGED <<goos, staged, env, procs>>
    /\ UNCHANGED xvars

\* The switch on runtime.GOOS that picks the URLs and staging paths.
MainPlatform ==
    /\ mpc = "platform"
    /\ Stage("platform", goos \in Supported, TRUE)
    /\ mpc' = IF goos \in Supported THEN "dl_java" ELSE "exit"
    /\ UNCHANGED <<goos, staged, env, procs>>
    /\ UNCHANGED xvars

\* What downloadFile leaves in the file it created, body being served: all
\* of it, nothing when the fetch failed, the first n entries' worth when the
\* copy failed.
Received(out, body, n) ==
    IF out = "nil" THEN body
    ELSE IF out = "copy" THEN Prefix(body, n)
    ELSE << >>

\* downloadFile: the file is created, the URL fetched, the body copied.  A
\* failed fetch leaves the created file empty, a failed copy a part of it.
Download(c) ==
    /\ mpc = "dl_" \o c
    /\ \E out \in {"nil", "create", "get", "copy"}, body \in Served :
       \E n \in (IF out = "copy" THEN 0..Len(body) ELSE {0}) :
        /\ staged' = IF out = "create" THEN staged
                     ELSE (StagingPath(goos, c) :> Received(out, body, n)) @@ staged
        /\ Stage("dl_" \o c, out = "nil", TRUE)
        /\ mpc' = AfterDownload(c, out)
    /\ UNCHANGED <<goos, env, procs>>
    /\ UNCHANGED xvars

\* main calls extractTGZ / extractZIP on a component's staged file.
ExtractCall(c) ==
    /\ mpc = "x_" \o c
    /\ xpc = "idle"
    /\ ~(c = "java" /\ goos = "windows")
    /\ \E flt \in Faults : XBegin(staged[ReadPath(goos, c)], FormatOf(goos), flt)
    /\ trace' = Append(trace, "x_" \o c)
    /\ UNCHANGED <<goos, mpc, staged, env, procs, failed, logged>>

\* The extractor returned to main.
ExtractReturn(c) ==
    /\ mpc = "x_" \o c
    /\ xpc = "done"
    /\ xpc' = "idle"
    /\ failed' = IF xerr = "nil" THEN failed ELSE failed \cup {"x_" \o c}
    /\ logged' = IF xerr = "nil" THEN logged ELSE logged \cup {"x_" \o c}
    /\ mpc' = AfterExtract(c, xerr)
    /\ UNCHANGED <<goos, staged, env, procs, trace>>
    /\ UNCHANGED <<format, archive, idx, fs, xerr, handles, faulted, prev>>

\* Windows: the Java installer is run on msiFilePath; the result of cmd.Run
\* is dropped.
InstallJava ==
    /\ mpc = "x_java"
    /\ goos = "windows"
    /\ \E ok \in BOOLEAN :
        /\ ok => ReadPath(goos, "java") \in DOMAIN staged
        /\ Stage("x_java", ok, FALSE)
    /\ mpc' = "setpath"
    /\ UNCHANGED <<goos, staged, env, procs>>
    /\ UNCHANGED xvars

\* Windows: os.Setenv("PATH", ...) after the installer; an error is printed
\* and the run goes on.
SetPath ==
    /\ mpc = "setpath"
    /\ \E ok \in BOOLEAN :
        /\ env' = IF ok THEN env \cup {"PATH"} ELSE env
        /\ Stage("setenv", ok, TRUE)
    /\ mpc' = "x_es"
    /\ UNCHANGED <<goos, staged, procs>>
    /\ UNCHANGED xvars

\* os.Setenv("JAVA_HOME", ...) when not on Windows; its result is dropped.
SetJavaHome ==
    /\ mpc = "setenv"
    /\ IF goos # "windows"
       THEN \E ok \in BOOLEAN :
               /\ env' = IF ok THEN env \cup {"JAVA_HOME"} ELSE env
               /\ Stage("setenv", ok, FALSE)
       ELSE UNCHANGED <<env, trace, failed, logged>>
    /\ mpc' = "start_es"
    /\ UNCHANGED <<goos, staged, procs>>
    /\ UNCHANGED xvars

\* startProcessE: cmd.Start() of Elasticsearch; its result is dropped.
StartElasticsearch ==
    /\ mpc = "start_es"
    /\ \E ok \in BOOLEAN :
        /\ procs' = IF ok THEN procs \cup {"elasticsearch"} ELSE procs
        /\ Stage("start_es", ok, FALSE)
    /\ mpc' = "wait_es"
    /\ UNCHANGED <<goos, staged, env>>
    /\ UNCHANGED xvars

\* startProcessE: time.Sleep(60 * time.Second)
WaitElasticsearch ==
    /\ mpc = "wait_es"
    /\ Stage("wait_es", TRUE, FALSE)
    /\ mpc' = "start_kibana"
    /\ UNCHANGED <<goos, staged, env, procs>>
    /\ UNCHANGED xvars

\* startProcessE: return cmd.Start() of Kibana; main prints an error and returns.
StartKibana ==
    /\ mpc = "start_kibana"
    /\ \E ok \in BOOLEAN :
        /\ procs' = IF ok THEN procs \cup {"kibana"} ELSE procs
        /\ Stage("start_kibana", ok, TRUE)
        /\ mpc' = AfterStart(IF ok THEN "nil" ELSE "exec")
    /\ UNCHANGED <<goos, staged, env>>
    /\ UNCHANGED xvars

\* main: time.Sleep(240 s) on Windows, time.Sleep(90 s) elsewhere.
WaitKibana ==
    /\ mpc = "wait_kibana"
    /\ Stage("wait_kibana", TRUE, FALSE)
    /\ mpc' = "browser"
    /\ UNCHANGED <<goos, staged, env, procs>>
    /\ UNCHANGED xvars

\* The browser is opened on localhost:5601; the result of cmd.Run is dropped.
OpenBrowser ==
    /\ mpc = "browser"
    /\ \E ok \in BOOLEAN : Stage("browser", ok, FALSE)
    /\ mpc' = "done"
    /\ UNCHANGED <<goos, staged, env, procs>>
    /\ UNCHANGED xvars

Init ==
    /\ goos \in Platforms
    /\ mpc = "home"
    /\ staged = << >> /\ env = {} /\ procs = {} /\ trace = << >>
    /\ failed = {} /\ logged = {}
    /\ format = "none"
    /\ archive = << >>
    /\ idx = 1
    /\ fs = FS0
    /\ xpc = "idle" /\ xerr = "none"
    /\ handles = {}
    /\ faulted = FALSE
    /\ prev = [err |-> "none", fs |-> FS0]

Next ==
    \/ MainHome \/ MainMkdir \/ MainExe \/ MainPlatform
    \/ Download("java") \/ Download("es") \/ Download("kibana")
    \/ InstallJava \/ SetPath
    \/ ExtractCall("java") \/ ExtractCall("es") \/ ExtractCall("kibana")
    \/ ZipStep \/ TgzStep \/ XEnd
    \/ ExtractReturn("java") \/ ExtractReturn("es") \/ ExtractReturn("kibana")
    \/ SetJavaHome
    \/ StartElasticsearch \/ WaitElasticsearch \/ StartKibana
    \/ WaitKibana \/ OpenBrowser

Spec == Init /\ [][Next]_vars

\* An extraction loop has an entry left to handle.
LoopPending == xpc = "loop" /\ idx <= Len(archive)

\* A run in which every external call returns and every fixed wait elapses:
\* main is one sequential thread, so a step that can be taken is taken.
\* This is weak fairness of Next, stated apart for the steps outside the
\* loops and for the loop iterations; for the latter ENABLED is written out
\* as LoopPending, an iteration being possible whenever an entry is left.
FairSpec ==
    /\ Spec
    /\ WF_vars(~LoopPending /\ Next)
    /\ []<>~LoopPending \/ []<><<LoopPending /\ Next>>_vars

----------------------------------------------------------------------------
(* Properties of the extractors, under SpecExtract *)

\* p is the destination directory or lies below it.
InsideDest(p) == Len(p) >= Len(Dest) /\ SubSeq(p, 1, Len(Dest)) = Dest

\* The output path of entry e lies outside the destination directory.
Escapes(e) == ~InsideDest(Join(DestDir, e.name))

\* Nothing exists outside the destination that did not exist before the call.
NothingCreatedOutside == \A p \in DOMAIN fs : InsideDest(p) \/ p \in DOMAIN FS0

\* The call returned while handling entry idx (not before the loop).
ReturnedAtEntry ==
    /\ xpc = "done" /\ idx <= Len(archive)
    /\ xerr \notin {"nil", "failed to create directory", "open archive"}

\* A call that meets an escaping entry (one it does not skip) returns an
\* error, the illegal-path one when it is that entry it stopped at, and at
\* no time is anything created outside the destination.
TraversalRejected(fm) ==
    format = fm =>
        /\ NothingCreatedOutside
        /\ (xpc = "done" /\ xerr = "nil") =>
               \A i \in 1..Len(archive) :
                   (fm = "zip" /\ HasJunkPrefix(archive[i].name)) \/ ~Escapes(archive[i])
        /\ (ReturnedAtEntry /\ Escapes(archive[idx])
              /\ ~(fm = "zip" /\ HasJunkPrefix(archive[idx].name))) =>
               xerr = "illegal file path"

\* C1: extractZIP returns an error when it reaches a non-skipped entry whose
\* joined and cleaned path is not inside the destination directory, and in no
\* state of the call has anything been created outside the destination.
C1_ZipTraversalRejected == mpc = "harness" => TraversalRejected("zip")

\* C1 witness: extractZIP wrote an entry and then stopped at an escaping one.
C1_Witness ==
    /\ mpc = "harness" /\ format = "zip" /\ xpc = "done"
    /\ xerr = "illegal file path" /\ idx > 1
    /\ Escapes(archive[idx])
    /\ Join(DestDir, ETop.name) \in DOMAIN fs

\* C2: extractTGZ fails with a path-traversal error when an entry's output
\* path resolves outside the destination (by ".." in its name or through a
\* symlink extracted earlier), and creates nothing outside the destination.
C2_TgzTraversalRejected == mpc = "harness" => TraversalRejected("tgz")

\* The second of two calls on the same archive, the first having returned nil.
SecondCallDone ==
    /\ mpc = "harness" /\ xpc = "done" /\ ~faulted /\ prev.err = "nil"

\* C5: extracting a well-formed archive a second time into the same
\* destination succeeds and leaves the same paths, contents and permission
\* bits as the first extraction left.
C5_ExtractTwiceSame == SecondCallDone => (xerr = "nil" /\ fs = prev.fs)

\* A first call, on the initial filesystem, that ran to its return with no
\* I/O fault of the environment.
FirstCallDone ==
    /\ mpc = "harness" /\ xpc = "done" /\ ~faulted /\ prev.err = "none"

\* Entry e's regular file is at its path under the destination, in full.
Placed(e) ==
    LET p == Join(DestDir, e.name) IN
    p \in DOMAIN fs /\ fs[p].kind = "file" /\ fs[p].data = e.data

\* The archive holds only directory and regular-file entries with distinct
\* paths below the destination, and a file whose parent directory has no
\* entry before it.
FileBeforeItsDirectory ==
    /\ \A i \in 1..Len(archive) : archive[i] \in {EDir, EFile, ETop}
    /\ \E i \in 1..Len(archive) :
           archive[i] = EFile /\ \A j \in 1..(i - 1) : archive[j] # EDir

\* C6: when a regular-file entry comes before its parent's directory entry,
\* or has none, extraction succeeds and the file is at its path with its
\* full content.
C6_LazyParentCreation ==
    (FirstCallDone /\ FileBeforeItsDirectory) =>
        (xerr = "nil" /\ \A i \in 1..Len(archive) :
                             archive[i].kind = "reg" => Placed(archive[i]))

\* An entry under the reserved metadata prefix of zip archives.
IsMetadataEntry(e) == e.name[1] = "__MACOSX" /\ Len(e.name) > 1

\* C9: extractZIP never writes an entry whose name starts with __MACOSX/:
\* handling it changes nothing on the filesystem and never ends the call.
C9_JunkNeverWritten ==
    [][(mpc = "harness" /\ format = "zip" /\ xpc = "loop" /\ idx <= Len(archive)
          /\ IsMetadataEntry(archive[idx]))
        => (fs' = fs /\ xpc' = "loop" /\ idx' = idx + 1)]_vars

\* C9 witness: extractZIP returned nil on an archive holding a metadata
\* entry and another file; the other file is there, the metadata entry not.
C9_Witness ==
    /\ mpc = "harness" /\ format = "zip" /\ xpc = "done" /\ xerr = "nil"
    /\ \E i \in 1..Len(archive) : IsMetadataEntry(archive[i])
    /\ Placed(ETop)
    /\ \A p \in DOMAIN fs : Len(p) <= Len(Dest) \/ p[Len(Dest) + 1] # "__MACOSX"

\* The archive holds a symlink entry and the regular file it points at, in
\* either order.
LinkAndTarget == archive \in {<<ELink, ETop>>, <<ETop, ELink>>}

\* C10: extractTGZ on a symlink entry and a regular file for its target, in
\* either order, succeeds and creates both; the link holds exactly the stored
\* link name and resolves to the file's content.
C10_SymlinkAndTarget ==
    (FirstCallDone /\ format = "tgz" /\ LinkAndTarget) =>
        /\ xerr = "nil"
        /\ Placed(ETop)
        /\ LET l == Join(DestDir, ELink.name) IN
           /\ l \in DOMAIN fs /\ fs[l].kind = "link" /\ fs[l].target = ELink.link
           /\ Stat(fs, l).st = "ok"
           /\ fs[Stat(fs, l).path].kind = "file"
           /\ fs[Stat(fs, l).path].data = ETop.data

\* C10 witness: the call on the link-first archive has returned, both made.
C10_Witness ==
    /\ FirstCallDone /\ format = "tgz" /\ archive = <<ELink, ETop>>
    /\ xerr = "nil"
    /\ Join(DestDir, ELink.name) \in DOMAIN fs

----------------------------------------------------------------------------
(* Properties of a run of main, under Spec *)

Downloads   == {"dl_java", "dl_es", "dl_kibana"}
Extractions == {"x_java", "x_es", "x_kibana"}
Launches    == {"start_es", "start_kibana"}

\* Stage b is entered only after stage a was.
Before(a, b) ==
    \A j \in 1..Len(trace) : trace[j] = b => \E i \in 1..(j - 1) : trace[i] = a

\* C3: a failure of any stage before the browser is opened stops the run at
\* once: the failed stage is the last one entered and main has returned.
C3_FailureStopsRun ==
    \A i \in 1..Len(trace) :
        (trace[i] \in failed /\ trace[i] # "browser") =>
            (i = Len(trace) /\ mpc = "exit")

\* C4: on an unsupported platform the run has performed no filesystem action
\* (nothing created, nothing written) and started no download.
C4_UnsupportedNoAction ==
    goos \notin Supported =>
        (fs = FS0 /\ staged = << >> /\ \A i \in 1..Len(trace) : trace[i] \notin Downloads)

\* No stage is entered twice, and none while an extractor is still running:
\* a running extractor belongs to the stage entered last.
OneStageAtATime ==
    /\ \A i, j \in 1..Len(trace) : trace[i] = trace[j] => i = j
    /\ xpc # "idle" => (trace # << >> /\ trace[Len(trace)] \in Extractions)

\* The order of the stages that does not depend on the platform: downloads
\* (completed without error) before any extraction, extractions in the order
\* Java, Elasticsearch, Kibana, the environment before any launch,
\* Elasticsearch and its wait before Kibana, Kibana's wait before the browser.
StageOrder ==
    /\ OneStageAtATime
    /\ \A d \in Downloads, x \in Extractions :
           Before(d, x) /\ ((\E i \in 1..Len(trace) : trace[i] = x) => d \notin failed)
    /\ Before("x_java", "x_es") /\ Before("x_es", "x_kibana")
    /\ \A l \in Launches : Before("setenv", l) /\ Before("x_kibana", l)
    /\ Before("start_es", "wait_es") /\ Before("wait_es", "start_kibana")
    /\ Before("start_kibana", "wait_kibana") /\ Before("wait_kibana", "browser")

\* C7 as claimed: the order above, with the environment configured after all
\* three extractions on every platform.
C7_StagesInOrder ==
    /\ StageOrder
    /\ \A x \in Extractions : Before(x, "setenv")

\* C7 as amended: the order above; off Windows the environment (JAVA_HOME)
\* is configured after all three extractions, on Windows the environment
\* (PATH) is changed right after the Java installer, before Elasticsearch
\* and Kibana are extracted.
C7_StagesInOrderPerPlatform ==
    /\ StageOrder
    /\ goos # "windows" => \A x \in Extractions : Before(x, "setenv")
    /\ goos = "windows" => (Before("x_java", "setenv") /\ Before("setenv", "x_es"))

\* C7 witness: a Windows run got to the end, every stage entered.
C7_Witness ==
    /\ mpc = "done" /\ goos = "windows"
    /\ \A g \in Extractions \cup Launches \cup {"setenv", "browser"} :
           \E i \in 1..Len(trace) : trace[i] = g

\* C8: when a download fails the run halts there: no further download, no
\* extraction or installer, no environment change, no launch, no browser.
C8_DownloadFailureHalts ==
    \A d \in Downloads :
        d \in failed =>
            /\ mpc = "exit"
            /\ trace[Len(trace)] = d
            /\ \A i \in 1..Len(trace) :
                   trace[i] \notin Extractions \cup Launches \cup {"setenv", "browser"}
            /\ env = {} /\ procs = {}
            /\ xpc = "idle" /\ archive = << >>
            /\ DOMAIN fs \subseteq (DOMAIN FS0) \cup {Dest}

\* C8 witness: the second download failed after the first had succeeded.
C8_Witness ==
    /\ "dl_es" \in failed /\ "dl_java" \notin failed
    /\ mpc = "exit"
    /\ StagingPath(goos, "java") \in DOMAIN staged

\* Stage g was entered in this run.
Entered(g) == \E i \in 1..Len(trace) : trace[i] = g

\* C11: a failure to open the browser is not fatal: the run still ends
\* completed with Elasticsearch and Kibana both left running, and the
\* failure has been reported.
C11_BrowserFailureReported ==
    "browser" \in failed =>
        /\ mpc = "done"
        /\ procs = {"elasticsearch", "kibana"}
        /\ "browser" \in logged

\* C12: a failure to start either process is returned by startProcessE; when
\* Elasticsearch fails to start there is no wait and Kibana is not started,
\* and Kibana is only ever started with Elasticsearch running.
C12_StartFailureReturned ==
    /\ \A l \in Launches : l \in failed => (mpc = "exit" /\ trace[Len(trace)] = l)
    /\ "start_es" \in failed => (~Entered("wait_es") /\ ~Entered("start_kibana"))
    /\ Entered("start_kibana") => "elasticsearch" \in procs

\* C17: whenever the extraction or installation step of a component has been
\* entered, the file it reads is one this run's download of that component
\* wrote.
C17_ReadsWhatWasStaged ==
    \A c \in {"java", "es", "kibana"} :
        Entered("x_" \o c) =>
            /\ ReadPath(goos, c) = StagingPath(goos, c)
            /\ ReadPath(goos, c) \in DOMAIN staged

----------------------------------------------------------------------------
(* Further properties of the extractors, under SpecExtract *)

\* An entry the extractor of format fm writes: not one extractZIP skips, and
\* of a kind that has a case (directory, regular file, symbolic link).
Written(fm, e) ==
    /\ e.kind \in {"dir", "reg", "sym"}
    /\ ~(fm = "zip" /\ IsMetadataEntry(e))

\* Entry e is on the filesystem at its path: a directory for a directory
\* entry, something at the path for the others.
Created(e) ==
    LET p == Join(DestDir, e.name) IN
    IF e.kind = "dir"
    THEN Stat(fs, p).st = "ok" /\ fs[Stat(fs, p).path].kind = "dir"
    ELSE Lstat(fs, p).st = "ok"

\* C13: an extractor returns nil only if every entry it writes was created;
\* a directory entry whose creation fails makes the call return an error.
C13_NilMeansAllCreated ==
    (mpc = "harness" /\ xpc = "done" /\ xerr = "nil") =>
        \A i \in 1..Len(archive) : Written(format, archive[i]) => Created(archive[i])

\* The node the entry handled in this step writes to, as it resolves after
\* the step.
OutputNode(e) == Stat(fs', Join(DestDir, e.name)).path

\* C14: entries are handled one at a time in archive order and the call
\* stops at the entry it returns an error at: a step handles entry idx only,
\* removes nothing, changes no node but that entry's; the step that fails
\* leaves idx at the failing entry, and nothing moves after the return.
C14_AbortAtFirstError ==
    [][mpc = "harness" =>
          /\ (xpc = "loop" /\ idx <= Len(archive)) =>
                 /\ idx' = idx + 1 \/ (idx' = idx /\ xpc' = "done" /\ xerr' # "nil")
                 /\ \A p \in DOMAIN fs :
                        /\ p \in DOMAIN fs'
                        /\ fs'[p] = fs[p] \/ p = OutputNode(archive[idx])
          /\ (xpc = "done" /\ xerr # "nil") => UNCHANGED <<fs, idx>>]_vars

\* C14 witness: the call stopped at the second of three entries, the first
\* is on disk in full and the third was never written.
C14_Witness ==
    /\ mpc = "harness" /\ ReturnedAtEntry /\ prev.err = "none"
    /\ archive = <<ETop, EEvil, EFile>> /\ idx = 2
    /\ Placed(ETop) /\ ~Placed(EFile)

\* C15: extractTGZ on an entry that is no directory, regular file or
\* symbolic link changes nothing, raises no error and goes on to the next
\* entry; at the end of the archive the call returns nil.
C15_UnknownTypeIgnored ==
    [][(mpc = "harness" /\ format = "tgz" /\ xpc = "loop") =>
          /\ (idx <= Len(archive) /\ ~Written("tgz", archive[idx]) /\ ~faulted') =>
                 (fs' = fs /\ xpc' = "loop" /\ idx' = idx + 1)
          /\ idx > Len(archive) => (xpc' = "done" /\ xerr' = "nil" /\ fs' = fs)]_vars

\* C15 witness: extractTGZ passed over an entry of another type, wrote the
\* entry after it and returned nil.
C15_Witness ==
    /\ FirstCallDone /\ format = "tgz" /\ archive = <<EOther, ETop>>
    /\ xerr = "nil" /\ Placed(ETop)
    /\ Lstat(fs, Join(DestDir, EOther.name)).st = "absent"

\* p lies strictly below the destination directory.
StrictlyBelowDest(p) == InsideDest(p) /\ p # Dest

\* C18: extractZIP accepts an entry it does not skip exactly when its joined
\* and cleaned path lies strictly below the cleaned destination; any other
\* is refused with the illegal-path error and nothing is written for it.
C18_StrictDescendantOnly ==
    [][(mpc = "harness" /\ format = "zip" /\ xpc = "loop" /\ idx <= Len(archive)
          /\ ~IsMetadataEntry(archive[idx])) =>
          LET refused == xpc' = "done" /\ xerr' = "illegal file path" IN
          /\ refused <=> ~StrictlyBelowDest(Join(DestDir, archive[idx].name))
          /\ refused => fs' = fs]_vars

\* C18 witness: extractZIP refused an entry naming the destination itself,
\* or a sibling directory whose name starts with the destination's.
C18_Witness ==
    /\ mpc = "harness" /\ format = "zip" /\ xpc = "done"
    /\ xerr = "illegal file path"
    /\ archive = <<ETop, ESelf, ESib>> /\ idx = 2

\* C19: when an extractor has returned, every output file it opened and
\* every entry reader, and the archive's own readers, are closed.
C19_AllClosedOnReturn ==
    (mpc = "harness" /\ xpc = "done") => handles = {}

----------------------------------------------------------------------------
(* Termination of a run of main, under FairSpec *)

\* main has returned: after the browser step, or at a failure.
Returned == mpc \in {"done", "exit"}

\* C16: every run ends, completed or failed; no stage is entered twice (so
\* none is retried), an extraction loop never goes past the end of its
\* archive, and nothing happens once main has returned.
C16_RunTerminates ==
    /\ <>Returned
    /\ [](\A i, j \in 1..Len(trace) : trace[i] = trace[j] => i = j)
    /\ [](idx <= Len(archive) + 1)
    /\ [][~Returned]_vars

\* C16 witness: a run that went through every stage has returned, its last
\* extraction loop having gone through all the entries of its archive.
C16_Witness ==
    /\ mpc = "done" /\ goos = "linux"
    /\ Entered("x_kibana") /\ Entered("browser")
    /\ Len(archive) = 2 /\ idx = 3

====
